---- MODULE Spec2Model ----
(***************************************************************************)
(* A model of oec/__main__.py: the command line bootstrap of the IBM 3270  *)
(* terminal controller.  Three specifications share the module:            *)
(*   Spec / FairSpec  the main sequence of main() interleaved with the     *)
(*                    asynchronously delivered _signal_handler;            *)
(*   ParserSpec       parse_tn3270_host_args applied to bounded inputs;    *)
(*   AttachSpec       _create_device followed by _create_session.          *)
(***************************************************************************)
EXTENDS Integers, Sequences, FiniteSets, TLC

\* ------------------------------------------------------------------ bounds
\* Termination requests (SIGINT/SIGTERM) delivered in one execution.
MaxSignals == 3
\* Longest host string handed to the address parser.
MaxLen == 5

\* --------------------------------------------------------------- constants
\* The default mainframe-protocol port (line 114).
DefaultPort == 23

\* Python's None, for the values that are strings in the model.
None == "None"
\* An optional value that is not a string: <<>> is None, <<v>> is the value v.
Absent == <<>>
Some(v) == <<v>>

VARIABLES
    \* --- main() and _signal_handler
    pc,             \* position of main()
    args,           \* the argparse namespace
    IS_VT100_AVAILABLE,
    CONTROLLER,     \* the module global
    frames,         \* stack of running _signal_handler invocations
    delivered,      \* termination requests delivered so far
    link,           \* the serial interface: "unopened", "open", "released"
    constructed,    \* a Controller instance has been constructed
    running,        \* Controller.running: cleared by stop()
    runState,       \* Controller.run(): "notstarted", "executing", "returned", "raised"
    pollPhase,      \* the run loop's poll cycle
    exitStatus,     \* how main() ends: "none", "config", "error", "fault"
    stopCalls,      \* history: invocations of CONTROLLER.stop()
    everCleared,    \* history: the reference went from set to cleared
    seqCalls,       \* history: handler calls completed in succession
    \* --- parse_tn3270_host_args
    pIn, pOut,
    \* --- _create_device / _create_session
    apc,            \* position of the attach: _create_device, then _create_session
    aIn,            \* what the device answers and what was asked for
    alocal,         \* _create_device's local variables
    terminal,       \* the Terminal _create_device returned
    session,        \* the session _create_session returned
    aerr,           \* the exception raised out of the attach
    alog            \* the queries issued and objects constructed, in order

lifeVars == <<pc, args, IS_VT100_AVAILABLE, CONTROLLER, frames, delivered, link,
              constructed, running, runState, pollPhase, exitStatus, stopCalls,
              everCleared, seqCalls>>
parserVars == <<pIn, pOut>>
attachVars == <<apc, aIn, alocal, terminal, session, aerr, alog>>
vars == <<lifeVars, parserVars, attachVars>>

\* ------------------------------------------------------------ Python strings
\* A str is a sequence of one-character strings over Alphabet.  The alphabet has
\* the three separators of the grammar [lu[,lu...]@]host[:port], two digits and
\* one letter; on it int() accepts exactly the non-empty digit strings.
Alphabet == {"h", "0", "1", ":", "@", ","}
Digits == {"0", "1"}

RECURSIVE StrsUpTo(_)
StrsUpTo(n) ==
    IF n = 0 THEN {<<>>}
    ELSE LET shorter == StrsUpTo(n - 1)
         IN  shorter \cup {Append(s, c) : s \in {t \in shorter : Len(t) = n - 1}, c \in Alphabet}

\* Position of the first / last occurrence of c in s, 0 when there is none.
IndexOfFirst(s, c) ==
    IF \E i \in 1..Len(s) : s[i] = c
    THEN CHOOSE i \in 1..Len(s) : s[i] = c /\ \A j \in 1..(i - 1) : s[j] # c
    ELSE 0
IndexOfLast(s, c) ==
    IF \E i \in 1..Len(s) : s[i] = c
    THEN CHOOSE i \in 1..Len(s) : s[i] = c /\ \A j \in (i + 1)..Len(s) : s[j] # c
    ELSE 0

\* str.rsplit(c, 1): split once, at the last c.
RSplit1(s, c) ==
    LET i == IndexOfLast(s, c)
    IN  IF i = 0 THEN <<s>> ELSE <<SubSeq(s, 1, i - 1), SubSeq(s, i + 1, Len(s))>>
\* str.split(c, 1): split once, at the first c.
Split1(s, c) ==
    LET i == IndexOfFirst(s, c)
    IN  IF i = 0 THEN <<s>> ELSE <<SubSeq(s, 1, i - 1), SubSeq(s, i + 1, Len(s))>>
\* str.split(c): split at every c; never an empty list.
RECURSIVE SplitAll(_, _)
SplitAll(s, c) ==
    LET i == IndexOfFirst(s, c)
    IN  IF i = 0 THEN <<s>>
        ELSE <<SubSeq(s, 1, i - 1)>> \o SplitAll(SubSeq(s, i + 1, Len(s)), c)

DigitValue(c) == IF c = "1" THEN 1 ELSE 0
RECURSIVE DecValue(_)
DecValue(s) ==
    IF s = <<>> THEN 0 ELSE 10 * DecValue(SubSeq(s, 1, Len(s) - 1)) + DigitValue(s[Len(s)])
\* int(s): raises ValueError (ok = FALSE) unless s is a non-empty digit string.
PyInt(s) ==
    IF Len(s) > 0 /\ \A i \in 1..Len(s) : s[i] \in Digits
    THEN [ok |-> TRUE, val |-> DecValue(s)]
    ELSE [ok |-> FALSE, val |-> 0]

\* ------------------------------------------------- parse_tn3270_host_args
\* parse_tn3270_host_args with the precedence reversed: a supplied legacy port
\* overrides the port embedded in the host string.
parse_tn3270_host_args_LegacyWins(host, port, errorReturns) ==
    LET elements == RSplit1(host, ":")
        hasToken == Len(elements) > 1
        parsed   == PyInt(elements[2])
        bad      == hasToken /\ ~parsed.ok
        embedded == IF hasToken /\ parsed.ok THEN Some(parsed.val) ELSE Absent
        chosen   == IF port # Absent THEN port ELSE embedded
        final    == IF chosen = Absent THEN DefaultPort ELSE chosen[1]
        parts    == Split1(elements[1], "@")
        names    == IF Len(parts) > 1 THEN Some(SplitAll(parts[1], ",")) ELSE Absent
    IN  IF bad /\ ~errorReturns
        THEN [returned |-> FALSE, error |-> Some(elements[2]),
              host |-> <<>>, port |-> 0, device_names |-> Absent]
        ELSE [returned |-> TRUE, error |-> IF bad THEN Some(elements[2]) ELSE Absent,
              host |-> parts[Len(parts)], port |-> final, device_names |-> names]

\* parse_tn3270_host_args splitting the host segment at its last @ instead of
\* its first.
parse_tn3270_host_args_LastAt(host, port, errorReturns) ==
    LET elements == RSplit1(host, ":")
        hasToken == Len(elements) > 1
        parsed   == PyInt(elements[2])
        bad      == hasToken /\ ~parsed.ok
        embedded == IF hasToken /\ parsed.ok THEN Some(parsed.val) ELSE Absent
        chosen   == IF port # Absent /\ embedded = Absent THEN port ELSE embedded
        final    == IF chosen = Absent THEN DefaultPort ELSE chosen[1]
        parts    == RSplit1(elements[1], "@")
        names    == IF Len(parts) > 1 THEN Some(SplitAll(parts[1], ",")) ELSE Absent
    IN  IF bad /\ ~errorReturns
        THEN [returned |-> FALSE, error |-> Some(elements[2]),
              host |-> <<>>, port |-> 0, device_names |-> Absent]
        ELSE [returned |-> TRUE, error |-> IF bad THEN Some(elements[2]) ELSE Absent,
              host |-> parts[Len(parts)], port |-> final, device_names |-> names]

\* host: args.host; port: args.port (Absent when not supplied); errorReturns:
\* whether parser.error returns to its caller (argparse's own error() exits).
\* The result records whether the function returned, the token parser.error
\* was called with, and the returned triple.
parse_tn3270_host_args(host, port, errorReturns) ==
    LET elements == RSplit1(host, ":")
        hasToken == Len(elements) > 1
        parsed   == PyInt(elements[2])
        bad      == hasToken /\ ~parsed.ok
        embedded == IF hasToken /\ parsed.ok THEN Some(parsed.val) ELSE Absent
        chosen   == IF port # Absent /\ embedded = Absent THEN port ELSE embedded
        final    == IF chosen = Absent THEN DefaultPort ELSE chosen[1]
        parts    == Split1(elements[1], "@")
        names    == IF Len(parts) > 1 THEN Some(SplitAll(parts[1], ",")) ELSE Absent
    IN  IF bad /\ ~errorReturns
        THEN [returned |-> FALSE, error |-> Some(elements[2]),
              host |-> <<>>, port |-> 0, device_names |-> Absent]
        ELSE [returned |-> TRUE, error |-> IF bad THEN Some(elements[2]) ELSE Absent,
              host |-> parts[Len(parts)], port |-> final, device_names |-> names]

\* ------------------------------------------------------ argument parsing
\* codecs.lookup succeeds exactly for the names of KnownCodecs, all of them
\* names of the codec cp037; it raises LookupError (Absent) for any other name.
KnownCodecs == {"ibm037", "IBM037", "cp037"}
Encodings == {"ibm037", "IBM037", "not-a-real-encoding"}
codecs_lookup(encoding) == IF encoding \in KnownCodecs THEN Some("cp037") ELSE Absent

\* _get_character_encoding returning the name of the codec found instead of
\* the name given.
_get_character_encoding_CodecName(encoding) ==
    IF codecs_lookup(encoding) # Absent
    THEN [ok |-> TRUE, value |-> codecs_lookup(encoding)[1], named |-> None]
    ELSE [ok |-> FALSE, value |-> None, named |-> encoding]

\* _get_character_encoding: the name itself, or ArgumentTypeError (ok = FALSE)
\* carrying the message's offending name.
_get_character_encoding(encoding) ==
    IF codecs_lookup(encoding) # Absent
    THEN [ok |-> TRUE, value |-> encoding, named |-> None]
    ELSE [ok |-> FALSE, value |-> None, named |-> encoding]

\* Host strings given on the command line in the lifecycle specification.
ArgHosts == {<<"h">>, <<"h", ":", "1", "0">>, <<"h", ":", "h">>, <<"1", "@", "h", ":">>}
LegacyPorts == {Absent, Some(34), Some(0)}
Emulators == {"tn3270", "vt100"}

\* The namespace before parse_args has converted anything: codepage is the
\* --codepage string of the command line, character_encoding its destination.
ArgSets ==
    { [emulator |-> e, host |-> h, port |-> p, device_names |-> Absent,
       codepage |-> c, character_encoding |-> c]
      : e \in Emulators, h \in ArgHosts, p \in {Absent, Some(34)}, c \in Encodings }

\* ------------------------------------------------------------------ main()
\* Positions of main(): "parse" (line 167), "hostargs" (169-170), "open" (177),
\* "construct" (178, right-hand side), "store" (178, the assignment),
\* "call_run" (180, the call), "run" (inside Controller.run), "release" (the
\* with statement's exit), "exited".
WithBlock == {"construct", "store", "call_run", "run", "release"}

mainIdle == frames = <<>>

\* parser.parse_args(): argparse rejects an invalid --codepage value and a
\* subcommand that was not registered (vt100 without IS_VT100_AVAILABLE) by
\* calling parser.error, which exits; otherwise it stores what
\* _get_character_encoding returned as args.character_encoding.
ParseArgs ==
    /\ mainIdle /\ pc = "parse"
    /\ LET r == _get_character_encoding(args.codepage)
       IN  IF ~r.ok \/ (args.emulator = "vt100" /\ ~IS_VT100_AVAILABLE)
           THEN pc' = "exited" /\ exitStatus' = "config" /\ UNCHANGED args
           ELSE /\ pc' = "hostargs" /\ UNCHANGED exitStatus
                /\ args' = [args EXCEPT !.character_encoding = r.value]
    /\ UNCHANGED <<IS_VT100_AVAILABLE, CONTROLLER, frames, delivered, link,
                   constructed, running, runState, pollPhase, stopCalls, everCleared,
                   seqCalls, parserVars, attachVars>>

\* Lines 169-170 with a parser whose error() reports and returns: the
\* configuration error is reported and the bootstrap goes on.
ParseHostArgsErrorReturns ==
    /\ mainIdle /\ pc = "hostargs"
    /\ IF args.emulator = "tn3270"
       THEN LET r == parse_tn3270_host_args(args.host, args.port, TRUE)
            IN  /\ args' = [args EXCEPT !.host = r.host, !.port = Some(r.port),
                                        !.device_names = r.device_names]
                /\ pc' = "open"
                /\ exitStatus' = IF r.error # Absent THEN "config" ELSE exitStatus
       ELSE pc' = "open" /\ UNCHANGED <<args, exitStatus>>
    /\ UNCHANGED <<IS_VT100_AVAILABLE, CONTROLLER, frames, delivered, link,
                   constructed, running, runState, pollPhase, stopCalls, everCleared,
                   seqCalls, parserVars, attachVars>>

\* Lines 169-170, with argparse's parser, whose error() exits.
ParseHostArgs ==
    /\ mainIdle /\ pc = "hostargs"
    /\ IF args.emulator = "tn3270"
       THEN LET r == parse_tn3270_host_args(args.host, args.port, FALSE)
            IN  IF r.returned
                THEN /\ args' = [args EXCEPT !.host = r.host, !.port = Some(r.port),
                                             !.device_names = r.device_names]
                     /\ pc' = "open" /\ UNCHANGED exitStatus
                ELSE /\ pc' = "exited" /\ exitStatus' = "config" /\ UNCHANGED args
       ELSE pc' = "open" /\ UNCHANGED <<args, exitStatus>>
    /\ UNCHANGED <<IS_VT100_AVAILABLE, CONTROLLER, frames, delivered, link,
                   constructed, running, runState, pollPhase, stopCalls, everCleared,
                   seqCalls, parserVars, attachVars>>

\* with open_serial_interface(args.serial_port) as interface: the link opens,
\* or opening raises and main() ends with no link.
OpenLink ==
    /\ mainIdle /\ pc = "open"
    /\ \/ link' = "open" /\ pc' = "construct" /\ UNCHANGED exitStatus
       \/ pc' = "exited" /\ exitStatus' = "error" /\ UNCHANGED link
    /\ UNCHANGED <<args, IS_VT100_AVAILABLE, CONTROLLER, frames, delivered,
                   constructed, running, runState, pollPhase, stopCalls, everCleared,
                   seqCalls, parserVars, attachVars>>

\* Controller(InterfaceWrapper(interface), create_device, create_session):
\* the constructor returns an instance or raises.
Construct ==
    /\ mainIdle /\ pc = "construct"
    /\ \/ constructed' = TRUE /\ pc' = "store" /\ UNCHANGED exitStatus
       \/ pc' = "release" /\ exitStatus' = "error" /\ UNCHANGED constructed
    /\ UNCHANGED <<args, IS_VT100_AVAILABLE, CONTROLLER, frames, delivered, link,
                   running, runState, pollPhase, stopCalls, everCleared,
                   seqCalls, parserVars, attachVars>>

\* CONTROLLER = <the new instance>
Store ==
    /\ mainIdle /\ pc = "store"
    /\ CONTROLLER' = "ctrl"
    /\ pc' = "call_run"
    /\ seqCalls' = <<>>
    /\ UNCHANGED <<args, IS_VT100_AVAILABLE, frames, delivered, link, constructed,
                   running, runState, pollPhase, exitStatus, stopCalls, everCleared,
                   parserVars, attachVars>>

\* Line 180 with run() started without waiting for it: the with block is
\* left while the run loop executes.
CallRunDetached ==
    /\ mainIdle /\ pc = "call_run"
    /\ IF CONTROLLER = None
       THEN pc' = "release" /\ exitStatus' = "fault" /\ UNCHANGED <<runState, running>>
       ELSE pc' = "release" /\ runState' = "executing" /\ running' = TRUE /\ UNCHANGED exitStatus
    /\ UNCHANGED <<args, IS_VT100_AVAILABLE, CONTROLLER, frames, delivered, link,
                   constructed, pollPhase, stopCalls, everCleared,
                   seqCalls, parserVars, attachVars>>

\* CONTROLLER.run(): the global is read again; on None the attribute lookup
\* raises AttributeError, otherwise the run loop is entered.
CallRun ==
    /\ mainIdle /\ pc = "call_run"
    /\ IF CONTROLLER = None
       THEN pc' = "release" /\ exitStatus' = "fault" /\ UNCHANGED <<runState, running>>
       ELSE pc' = "run" /\ runState' = "executing" /\ running' = TRUE /\ UNCHANGED exitStatus
    /\ UNCHANGED <<args, IS_VT100_AVAILABLE, CONTROLLER, frames, delivered, link,
                   constructed, pollPhase, stopCalls, everCleared,
                   seqCalls, parserVars, attachVars>>

\* One iteration of Controller.run's loop while it has not been stopped.
RunPoll ==
    /\ mainIdle /\ pc = "run" /\ running
    /\ pollPhase' = 1 - pollPhase
    /\ UNCHANGED <<pc, args, IS_VT100_AVAILABLE, CONTROLLER, frames, delivered, link,
                   constructed, running, runState, exitStatus, stopCalls, everCleared,
                   seqCalls, parserVars, attachVars>>

\* Controller.run returns because stop() cancelled the loop.
RunStopped ==
    /\ mainIdle /\ pc = "run" /\ ~running
    /\ runState' = "returned"
    /\ pc' = "release"
    /\ UNCHANGED <<args, IS_VT100_AVAILABLE, CONTROLLER, frames, delivered, link,
                   constructed, running, pollPhase, exitStatus, stopCalls, everCleared,
                   seqCalls, parserVars, attachVars>>

\* Controller.run returns on its own, with no stop() having been called.
RunEnds ==
    /\ mainIdle /\ pc = "run" /\ running
    /\ runState' = "returned"
    /\ pc' = "release"
    /\ UNCHANGED <<args, IS_VT100_AVAILABLE, CONTROLLER, frames, delivered, link,
                   constructed, running, pollPhase, exitStatus, stopCalls, everCleared,
                   seqCalls, parserVars, attachVars>>

\* An error raised out of the run loop (an unsupported device, an unsupported
\* emulator, a failed query).
RunRaise ==
    /\ mainIdle /\ pc = "run" /\ running
    /\ runState' = "raised"
    /\ exitStatus' = "error"
    /\ pc' = "release"
    /\ UNCHANGED <<args, IS_VT100_AVAILABLE, CONTROLLER, frames, delivered, link,
                   constructed, running, pollPhase, stopCalls, everCleared,
                   seqCalls, parserVars, attachVars>>

\* The with statement inside a reconnect loop: after the release the
\* bootstrap opens the link again.
ReleaseLinkAndRestart ==
    /\ mainIdle /\ pc = "release"
    /\ link' = "released"
    /\ pc' = "open"
    /\ UNCHANGED <<args, IS_VT100_AVAILABLE, CONTROLLER, frames, delivered,
                   constructed, running, runState, pollPhase, exitStatus, stopCalls,
                   everCleared, seqCalls, parserVars, attachVars>>

\* The with statement's exit: the serial interface is closed.
ReleaseLink ==
    /\ mainIdle /\ pc = "release"
    /\ link' = "released"
    /\ pc' = "exited"
    /\ UNCHANGED <<args, IS_VT100_AVAILABLE, CONTROLLER, frames, delivered,
                   constructed, running, runState, pollPhase, exitStatus, stopCalls,
                   everCleared, seqCalls, parserVars, attachVars>>

MainStep ==
    \/ ParseArgs \/ ParseHostArgs \/ OpenLink \/ Construct \/ Store \/ CallRun
    \/ RunPoll \/ RunStopped \/ RunEnds \/ RunRaise \/ ReleaseLink

\* ---------------------------------------------------------- _signal_handler
\* A handler invocation runs on the main thread, between two instructions of
\* whatever is executing there: main() or another handler invocation.  frames
\* is the stack of invocations, the last one executing.  Positions of an
\* invocation: "check" (line 131), "call" (line 132, the global read again
\* and stop looked up), "stop" (inside stop()), "clear" (line 134).
\* clean: no other invocation ran inside this one; before: CONTROLLER when it
\* was called; stops: the stop() calls it made.
Top == frames[Len(frames)]
Below == SubSeq(frames, 1, Len(frames) - 1)
SetTop(f) == [frames EXCEPT ![Len(frames)] = f]

\* The handler calls completed (returned or raised) one after the other, the
\* last two of them: a call joins when nothing ran inside it.
Completed(f, after, fault) ==
    IF f.clean
    THEN LET e == [stops |-> f.stops, before |-> f.before, after |-> after,
                   fault |-> fault]
         IN  IF seqCalls = <<>> THEN <<e>> ELSE <<seqCalls[Len(seqCalls)], e>>
    ELSE <<>>
Stepped(f) == IF f.clean THEN seqCalls ELSE <<>>

\* SIGINT or SIGTERM arrives while the process lives: the handler is entered.
Deliver ==
    /\ delivered < MaxSignals
    /\ pc # "exited"
    /\ delivered' = delivered + 1
    /\ frames' = (IF frames = <<>> THEN <<>> ELSE Below \o <<[Top EXCEPT !.clean = FALSE]>>)
                 \o <<[hpc |-> "check", clean |-> TRUE, before |-> CONTROLLER, stops |-> 0]>>
    /\ seqCalls' = IF frames # <<>> /\ Top.clean /\ Top.hpc # "check" THEN <<>> ELSE seqCalls
    /\ UNCHANGED <<pc, args, IS_VT100_AVAILABLE, CONTROLLER, link, constructed, running,
                   runState, pollPhase, exitStatus, stopCalls, everCleared,
                   parserVars, attachVars>>

\* if CONTROLLER: ... (else the handler returns)
HCheck ==
    /\ frames # <<>> /\ Top.hpc = "check"
    /\ IF CONTROLLER # None
       THEN frames' = SetTop([Top EXCEPT !.hpc = "call"]) /\ seqCalls' = Stepped(Top)
       ELSE frames' = Below /\ seqCalls' = Completed(Top, CONTROLLER, FALSE)
    /\ UNCHANGED <<pc, args, IS_VT100_AVAILABLE, CONTROLLER, delivered, link, constructed,
                   running, runState, pollPhase, exitStatus, stopCalls, everCleared,
                   parserVars, attachVars>>

\* Line 132 left out: the handler goes on to clear the reference without
\* calling stop.
HCallStopOmitted ==
    /\ frames # <<>> /\ Top.hpc = "call"
    /\ CONTROLLER # None
    /\ frames' = SetTop([Top EXCEPT !.hpc = "clear"])
    /\ seqCalls' = Stepped(Top)
    /\ UNCHANGED <<pc, args, IS_VT100_AVAILABLE, CONTROLLER, delivered, link, constructed,
                   running, runState, pollPhase, exitStatus, stopCalls, everCleared,
                   parserVars, attachVars>>

\* CONTROLLER.stop(): stop is invoked on the instance the global holds now.
HCallStop ==
    /\ frames # <<>> /\ Top.hpc = "call"
    /\ CONTROLLER # None
    /\ frames' = SetTop([Top EXCEPT !.hpc = "stop", !.stops = @ + 1])
    /\ stopCalls' = stopCalls + 1
    /\ seqCalls' = Stepped(Top)
    /\ UNCHANGED <<pc, args, IS_VT100_AVAILABLE, CONTROLLER, delivered, link, constructed,
                   running, runState, pollPhase, exitStatus, everCleared,
                   parserVars, attachVars>>

\* CONTROLLER.stop() when the global has become None since the check:
\* AttributeError.  No handler invocation catches it, so it unwinds every
\* invocation on the stack and is raised in main() where main() was interrupted.
HFault ==
    /\ frames # <<>> /\ Top.hpc = "call"
    /\ CONTROLLER = None
    /\ frames' = <<>>
    /\ pc' = IF pc \in WithBlock THEN "release" ELSE "exited"
    /\ runState' = IF runState = "executing" THEN "raised" ELSE runState
    /\ exitStatus' = "fault"
    /\ seqCalls' = Completed(Top, CONTROLLER, TRUE)
    /\ UNCHANGED <<args, IS_VT100_AVAILABLE, CONTROLLER, delivered, link, constructed,
                   running, pollPhase, stopCalls, everCleared, parserVars, attachVars>>

\* Controller.stop() runs and returns: the run loop is cancelled.
HStopReturns ==
    /\ frames # <<>> /\ Top.hpc = "stop"
    /\ running' = FALSE
    /\ frames' = SetTop([Top EXCEPT !.hpc = "clear"])
    /\ seqCalls' = Stepped(Top)
    /\ UNCHANGED <<pc, args, IS_VT100_AVAILABLE, CONTROLLER, delivered, link, constructed,
                   runState, pollPhase, exitStatus, stopCalls, everCleared,
                   parserVars, attachVars>>

\* The handler returning without the assignment of line 134.
HClearForgotten ==
    /\ frames # <<>> /\ Top.hpc = "clear"
    /\ frames' = Below
    /\ seqCalls' = Completed(Top, CONTROLLER, FALSE)
    /\ UNCHANGED <<pc, args, IS_VT100_AVAILABLE, CONTROLLER, everCleared, delivered, link,
                   constructed, running, runState, pollPhase, exitStatus, stopCalls,
                   parserVars, attachVars>>

\* CONTROLLER = None, and the handler returns.
HClear ==
    /\ frames # <<>> /\ Top.hpc = "clear"
    /\ CONTROLLER' = None
    /\ everCleared' = (everCleared \/ CONTROLLER # None)
    /\ frames' = Below
    /\ seqCalls' = Completed(Top, None, FALSE)
    /\ UNCHANGED <<pc, args, IS_VT100_AVAILABLE, delivered, link, constructed, running,
                   runState, pollPhase, exitStatus, stopCalls, parserVars, attachVars>>

HandlerStep == HCheck \/ HCallStop \/ HFault \/ HStopReturns \/ HClear

\* ------------------------------------------------------- the specifications
LifeStart(a, v) ==
    /\ pc = "parse" /\ args = a /\ IS_VT100_AVAILABLE = v
    /\ CONTROLLER = None /\ frames = <<>> /\ delivered = 0
    /\ link = "unopened" /\ constructed = FALSE /\ running = FALSE
    /\ runState = "notstarted" /\ pollPhase = 0 /\ exitStatus = "none"
    /\ stopCalls = 0 /\ everCleared = FALSE /\ seqCalls = <<>>

DefaultArgs ==
    [emulator |-> "tn3270", host |-> <<"h">>, port |-> Absent,
     device_names |-> Absent, codepage |-> "ibm037", character_encoding |-> "ibm037"]

ParserIdle == pIn = [host |-> <<>>, port |-> Absent, errorReturns |-> FALSE] /\ pOut = Absent
AttachIdle ==
    /\ apc = "idle" /\ aIn = Absent /\ alocal = Absent /\ terminal = Absent
    /\ session = Absent /\ aerr = None /\ alog = <<>>

Init ==
    /\ \E a \in ArgSets, v \in BOOLEAN : LifeStart(a, v)
    /\ ParserIdle /\ AttachIdle

Next == MainStep \/ Deliver \/ HandlerStep

Spec == Init /\ [][Next]_vars

\* The main thread keeps executing: main() takes its next step whenever it
\* has one, and an entered handler runs to its end.  Signals arrive or not.
FairSpec == Spec /\ WF_vars(MainStep) /\ WF_vars(HandlerStep)

\* ------------------------------------------------ the lifecycle's properties
\* C1: stop is invoked at most once on the controller instance, whatever the
\* interleaving of termination requests with main() and with each other.
C1_StopAtMostOnce == stopCalls <= 1

\* C2: a termination request delivered while main() is between the opening of
\* the link and the end of the run loop (during Controller construction, before
\* the reference is stored, before or inside run) is never lost: eventually
\* the process has exited with the reference absent and, when a Controller
\* was constructed, with that controller stopped.
RequestInBootstrap == frames # <<>> /\ pc \in {"construct", "store", "call_run", "run"}
ExitedStopped ==
    pc = "exited" /\ CONTROLLER = None /\ (constructed => stopCalls >= 1)
C2_RequestNeverLost == RequestInBootstrap ~> ExitedStopped

\* C3: two handler calls in succession, each run to completion with no store
\* of the reference between them, invoke stop at most once together and the
\* second raises no fault; a call made while the reference is absent invokes
\* no stop, raises no fault and leaves the reference absent.
C3_TwoCallsOneStop ==
    /\ Len(seqCalls) = 2 =>
          /\ seqCalls[1].stops + seqCalls[2].stops <= 1
          /\ ~seqCalls[2].fault
    /\ \A i \in 1..Len(seqCalls) :
          seqCalls[i].before = None =>
              seqCalls[i].stops = 0 /\ seqCalls[i].after = None /\ ~seqCalls[i].fault
C3_Witness ==
    /\ Len(seqCalls) = 2
    /\ seqCalls[1].before = "ctrl" /\ seqCalls[1].stops = 1
    /\ seqCalls[2].before = None /\ seqCalls[2].stops = 0

\* C4: once the reference has gone from set to cleared it is never set again.
C4_ClearedStaysCleared == [][everCleared => CONTROLLER' = None]_vars
C4_Witness == everCleared /\ delivered >= 2 /\ pc = "exited"

\* C5: once the link is open it is eventually released on every exit path:
\* the run loop returned, an error was raised (out of the construction or out
\* of the run loop), or a termination request was delivered.
ExitPathTaken ==
    \/ runState \in {"returned", "raised"}
    \/ exitStatus \in {"error", "fault"}
    \/ frames # <<>>
C5_LinkReleasedOnExit == (link = "open" /\ ExitPathTaken) ~> link = "released"

\* C6: the link is never released while Controller.run is still executing.
C6_ReleaseAfterRun == link = "released" => runState # "executing"
C6_Witness == link = "released" /\ runState = "returned" /\ stopCalls = 1

\* C7: after a configuration error (invalid encoding, unparsable port token)
\* the program has ended with no link opened, no Controller constructed and no
\* run loop (hence no device query) started.
C7_ConfigErrorBeforeLink ==
    exitStatus = "config" =>
        /\ pc = "exited" /\ link = "unopened"
        /\ ~constructed /\ CONTROLLER = None /\ runState = "notstarted"
C7_Witness ==
    /\ exitStatus = "config" /\ pc = "exited"
    /\ args.emulator = "tn3270" /\ args.character_encoding \in KnownCodecs
    /\ args.host = <<"h", ":", "h">>

\* ------------------------------------------------------------- ParserSpec
\* parse_tn3270_host_args called once on every host string of at most MaxLen
\* characters, with and without a legacy port, with either kind of parser.
ParserInputs == [host : StrsUpTo(MaxLen), port : LegacyPorts, errorReturns : BOOLEAN]

ParserInit ==
    /\ LifeStart(DefaultArgs, TRUE) /\ AttachIdle
    /\ pIn \in ParserInputs /\ pOut = Absent

ParseCall ==
    /\ pOut = Absent
    /\ pOut' = Some(parse_tn3270_host_args(pIn.host, pIn.port, pIn.errorReturns))
    /\ UNCHANGED <<pIn, lifeVars, attachVars>>

ParserNext == ParseCall

ParserSpec == ParserInit /\ [][ParserNext]_vars

\* A port is embedded in host when the text after its last colon is a
\* non-empty digit string; EmbeddedPort is that text's value.
HasEmbeddedPort(h) ==
    \E i \in 1..(Len(h) - 1) : h[i] = ":" /\ \A j \in (i + 1)..Len(h) : h[j] \in Digits
EmbeddedPort(h) ==
    LET i == CHOOSE k \in 1..(Len(h) - 1) :
                 h[k] = ":" /\ \A j \in (k + 1)..Len(h) : h[j] \in Digits
    IN  DecValue(SubSeq(h, i + 1, Len(h)))

\* C10: whenever the parser returns, the port is the embedded one if there is
\* one, the same for every legacy value; else the legacy port if supplied;
\* else 23.
C10_PortPrecedence ==
    pOut # Absent /\ pOut[1].returned =>
        IF HasEmbeddedPort(pIn.host)
        THEN /\ pOut[1].port = EmbeddedPort(pIn.host)
             /\ \A q \in LegacyPorts :
                    parse_tn3270_host_args(pIn.host, q, pIn.errorReturns).port = pOut[1].port
        ELSE IF pIn.port # Absent
        THEN pOut[1].port = pIn.port[1]
        ELSE pOut[1].port = 23
C10_Witness ==
    /\ pIn.host = <<"h", ":", "1", "0">> /\ pIn.port = Some(34)
    /\ pOut # Absent /\ pOut[1].returned /\ pOut[1].port = 10

\* The host string without its :port suffix, when it has an embedded port.
WithoutPort(h) ==
    IF HasEmbeddedPort(h)
    THEN LET i == CHOOSE k \in 1..(Len(h) - 1) :
                      h[k] = ":" /\ \A j \in (k + 1)..Len(h) : h[j] \in Digits
         IN  SubSeq(h, 1, i - 1)
    ELSE h
Contains(s, c) == \E i \in 1..Len(s) : s[i] = c
\* sep.join(list).
RECURSIVE Join(_, _)
Join(list, sep) ==
    IF Len(list) = 0 THEN <<>>
    ELSE IF Len(list) = 1 THEN list[1]
    ELSE list[1] \o <<sep>> \o Join(Tail(list), sep)

\* C11: for every input on which no error is reported (no colon, or digits
\* after the last colon) the returned host is the text right of the first @
\* of the input without its :port suffix; with an @ the LU list is the ordered
\* comma-split of the text left of that @ (its items hold no comma and joined
\* by commas give that text back); without an @ the LU list is absent; the
\* list returned is never empty.
C11_HostAndLuList ==
    (pOut # Absent /\ pOut[1].returned /\ pOut[1].error = Absent) =>
        LET body == WithoutPort(pIn.host)
            r == pOut[1]
        IN  IF Contains(body, "@")
            THEN \E i \in 1..Len(body) :
                    /\ body[i] = "@" /\ ~Contains(SubSeq(body, 1, i - 1), "@")
                    /\ r.host = SubSeq(body, i + 1, Len(body))
                    /\ r.device_names # Absent
                    /\ Len(r.device_names[1]) >= 1
                    /\ \A k \in 1..Len(r.device_names[1]) : ~Contains(r.device_names[1][k], ",")
                    /\ Join(r.device_names[1], ",") = SubSeq(body, 1, i - 1)
            ELSE r.host = body /\ r.device_names = Absent
C11_Witness ==
    /\ pIn.host = <<"0", ",", "1", "@", "h">>
    /\ pOut # Absent /\ pOut[1].returned
    /\ pOut[1].host = <<"h">> /\ pOut[1].port = 23
    /\ pOut[1].device_names = Some(<< <<"0">>, <<"1">> >>)

\* C12: when the text after the last colon is not an integer, the parser
\* reports it through parser.error, naming it, and does not proceed: it
\* returns no result, whatever parser.error does.
BadPortToken(h) == Contains(h, ":") /\ ~HasEmbeddedPort(h)
C12_BadPortStops ==
    (pOut # Absent /\ BadPortToken(pIn.host)) =>
        /\ pOut[1].error = Some(SubSeq(pIn.host, IndexOfLast(pIn.host, ":") + 1, Len(pIn.host)))
        /\ ~pOut[1].returned
\* ------------------------------------------------------------ _get_keymap
StartsWith(s, prefix) ==
    Len(s) >= Len(prefix) /\ SubSeq(s, 1, Len(prefix)) = prefix

Prefix3278 == <<"3", "2", "7", "8">>
PrefixIbmTypewriter == <<"I", "B", "M", "-", "T", "Y", "P", "E", "W", "R", "I", "T", "E", "R">>
PrefixIbmEnhanced == <<"I", "B", "M", "-", "E", "N", "H", "A", "N", "C", "E", "D">>

\* _get_keymap falling back to the enhanced keymap when no prefix matches.
_get_keymap_DefaultEnhanced(keyboard_description) ==
    IF StartsWith(keyboard_description, Prefix3278) THEN "KEYMAP_3278_TYPEWRITER"
    ELSE IF StartsWith(keyboard_description, PrefixIbmTypewriter) THEN "KEYMAP_IBM_TYPEWRITER"
    ELSE IF StartsWith(keyboard_description, PrefixIbmEnhanced) THEN "KEYMAP_IBM_ENHANCED"
    ELSE "KEYMAP_IBM_ENHANCED"

_get_keymap(keyboard_description) ==
    IF StartsWith(keyboard_description, Prefix3278) THEN "KEYMAP_3278_TYPEWRITER"
    ELSE IF StartsWith(keyboard_description, PrefixIbmTypewriter) THEN "KEYMAP_IBM_TYPEWRITER"
    ELSE IF StartsWith(keyboard_description, PrefixIbmEnhanced) THEN "KEYMAP_IBM_ENHANCED"
    ELSE "KEYMAP_3278_TYPEWRITER"

\* ---------------------------------------------------------- _create_session
\* The session constructed (Absent when the function raises), the exception
\* raised and the constructors called.
_create_session_AnyPlatform(a, device, vt100Available) ==
    IF a.emulator = "tn3270"
    THEN [session |-> Some([class |-> "TN3270Session", device |-> device, host |-> a.host,
                            port |-> a.port, device_names |-> a.device_names,
                            character_encoding |-> a.character_encoding]),
          raised |-> None, calls |-> <<"TN3270Session">>]
    ELSE IF a.emulator = "vt100"
    THEN [session |-> Some([class |-> "VT100Session", device |-> device,
                            host_command |-> <<a.command>> \o a.command_args]),
          raised |-> None, calls |-> <<"VT100Session">>]
    ELSE [session |-> Absent, raised |-> "ValueError", calls |-> <<>>]

_create_session(a, device, vt100Available) ==
    IF a.emulator = "tn3270"
    THEN [session |-> Some([class |-> "TN3270Session", device |-> device, host |-> a.host,
                            port |-> a.port, device_names |-> a.device_names,
                            character_encoding |-> a.character_encoding]),
          raised |-> None, calls |-> <<"TN3270Session">>]
    ELSE IF a.emulator = "vt100" /\ vt100Available
    THEN [session |-> Some([class |-> "VT100Session", device |-> device,
                            host_command |-> <<a.command>> \o a.command_args]),
          raised |-> None, calls |-> <<"VT100Session">>]
    ELSE [session |-> Absent, raised |-> "ValueError", calls |-> <<>>]

\* --------------------------------------------------------------- AttachSpec
\* One attach: the controller calls create_device and, with the device it
\* returns, create_session.  aIn scripts the device's answers (the identifiers,
\* the keyboard description derived from them, which query fails) and the
\* parsed arguments.
TerminalTypes == {"CUT", "DFT"}
ExtendedIds == {Absent, Some(<<"c", "1", "3", "4", "7", "2">>)}
KeyboardDescriptions ==
    { Prefix3278 \o <<"-", "T">>, PrefixIbmTypewriter, PrefixIbmEnhanced \o <<"-", "2">>,
      <<"i", "b", "m", "-", "e", "n", "h", "a", "n", "c", "e", "d">>, <<>>,
      <<"3", "2", "7">>, <<"I", "B", "M", "-", "3", "2", "7", "8">>,
      SubSeq(PrefixIbmTypewriter, 1, 13), <<" ">> \o PrefixIbmEnhanced }
AttachArgs ==
    { [emulator |-> e, host |-> <<"h">>, port |-> 23, device_names |-> Absent,
       character_encoding |-> "ibm037", command |-> "sh", command_args |-> <<"-l">>]
      : e \in {"tn3270", "vt100", "x3270"} }
AttachInputs ==
    [type : TerminalTypes, extended_id : ExtendedIds,
     keyboard_description : KeyboardDescriptions,
     fails : {"nothing", "get_ids", "get_features"}, args : AttachArgs]

AttachInit ==
    /\ \E v \in BOOLEAN : LifeStart(DefaultArgs, v)
    /\ ParserIdle
    /\ aIn \in {Some(i) : i \in AttachInputs}
    /\ apc = "get_ids" /\ alocal = Absent /\ terminal = Absent
    /\ session = Absent /\ aerr = None /\ alog = <<>>

In == aIn[1]
Local == alocal[1]

\* Line 52: get_ids(interface, device_address).
GetIds ==
    /\ apc = "get_ids"
    /\ alog' = Append(alog, "get_ids")
    /\ IF In.fails = "get_ids"
       THEN apc' = "raised" /\ aerr' = "QueryError" /\ UNCHANGED alocal
       ELSE /\ alocal' = Some([terminal_id |-> [type |-> In.type],
                               extended_id |-> In.extended_id])
            /\ apc' = "check_type" /\ UNCHANGED aerr
    /\ UNCHANGED <<aIn, terminal, session, lifeVars, parserVars>>

\* Lines 56-57 with the check reduced to a warning.
CheckTypeWarnOnly ==
    /\ apc = "check_type"
    /\ apc' = "keyboard"
    /\ UNCHANGED <<aIn, alocal, terminal, session, aerr, alog, lifeVars, parserVars>>

\* Lines 56-57: only CUT type terminals are supported.
CheckType ==
    /\ apc = "check_type"
    /\ IF Local.terminal_id.type # "CUT"
       THEN apc' = "raised" /\ aerr' = "UnsupportedDeviceError"
       ELSE apc' = "keyboard" /\ UNCHANGED aerr
    /\ UNCHANGED <<aIn, alocal, terminal, session, alog, lifeVars, parserVars>>

\* Line 64: get_keyboard_description(terminal_id, extended_id).
GetKeyboardDescription ==
    /\ apc = "keyboard"
    /\ alog' = Append(alog, "get_keyboard_description")
    /\ alocal' = Some([f \in DOMAIN Local \cup {"keyboard_description"} |->
                        IF f = "keyboard_description" THEN In.keyboard_description
                        ELSE Local[f]])
    /\ apc' = "get_features"
    /\ UNCHANGED <<aIn, terminal, session, aerr, lifeVars, parserVars>>

\* Line 69 with a failed feature query swallowed: the attach goes on without
\* features.
GetFeaturesFailureIgnored ==
    /\ apc = "get_features"
    /\ alog' = Append(alog, "get_features")
    /\ alocal' = Some([f \in DOMAIN Local \cup {"features"} |->
                        IF f = "features"
                        THEN (IF In.fails = "get_features" THEN None ELSE "features")
                        ELSE Local[f]])
    /\ apc' = "keymap"
    /\ UNCHANGED <<aIn, terminal, session, aerr, lifeVars, parserVars>>

\* Line 69: get_features(interface, device_address).
GetFeatures ==
    /\ apc = "get_features"
    /\ alog' = Append(alog, "get_features")
    /\ IF In.fails = "get_features"
       THEN apc' = "raised" /\ aerr' = "QueryError" /\ UNCHANGED alocal
       ELSE /\ alocal' = Some([f \in DOMAIN Local \cup {"features"} |->
                                IF f = "features" THEN "features" ELSE Local[f]])
            /\ apc' = "keymap" /\ UNCHANGED aerr
    /\ UNCHANGED <<aIn, terminal, session, lifeVars, parserVars>>

\* Line 74: keymap = _get_keymap(keyboard_description).
GetKeymap ==
    /\ apc = "keymap"
    /\ alog' = Append(alog, "_get_keymap")
    /\ alocal' = Some([f \in DOMAIN Local \cup {"keymap"} |->
                        IF f = "keymap" THEN _get_keymap(Local.keyboard_description)
                        ELSE Local[f]])
    /\ apc' = "terminal"
    /\ UNCHANGED <<aIn, terminal, session, aerr, lifeVars, parserVars>>

\* Lines 79-81: the Terminal is constructed and returned.
ConstructTerminal ==
    /\ apc = "terminal"
    /\ alog' = Append(alog, "Terminal")
    /\ terminal' = Some([terminal_id |-> Local.terminal_id, extended_id |-> Local.extended_id,
                         features |-> Local.features, keymap |-> Local.keymap])
    /\ apc' = "session"
    /\ UNCHANGED <<aIn, alocal, session, aerr, lifeVars, parserVars>>

\* create_session(device): _create_session(args, device).
CreateSession ==
    /\ apc = "session"
    /\ LET r == _create_session(In.args, terminal[1], IS_VT100_AVAILABLE)
       IN  /\ session' = r.session
           /\ aerr' = r.raised
           /\ alog' = alog \o r.calls
           /\ apc' = IF r.raised = None THEN "done" ELSE "raised"
    /\ UNCHANGED <<aIn, alocal, terminal, lifeVars, parserVars>>

AttachNext ==
    \/ GetIds \/ CheckType \/ GetKeyboardDescription \/ GetFeatures \/ GetKeymap
    \/ ConstructTerminal \/ CreateSession

AttachSpec == AttachInit /\ [][AttachNext]_vars

Issued(op) == \E i \in 1..Len(alog) : alog[i] = op
Count(op) == Cardinality({i \in 1..Len(alog) : alog[i] = op})

\* C8: for a terminal whose type is not CUT, _create_device raises the
\* unsupported-device error as soon as the identifiers are read; no keyboard
\* description, feature query or keymap selection follows and no Terminal is
\* constructed.  A Terminal is constructed only for a CUT terminal.
C8_NonCutRejected ==
    /\ (alocal # Absent /\ Local.terminal_id.type # "CUT") =>
          /\ ~Issued("get_keyboard_description") /\ ~Issued("get_features")
          /\ ~Issued("_get_keymap") /\ ~Issued("Terminal")
          /\ terminal = Absent
          /\ apc \in {"check_type", "raised"}
          /\ apc = "raised" => aerr = "UnsupportedDeviceError"
    /\ terminal # Absent => terminal[1].terminal_id.type = "CUT"
C8_Witness ==
    /\ apc = "raised" /\ aerr = "UnsupportedDeviceError"
    /\ In.type = "DFT" /\ alog = <<"get_ids">>

\* C9: once _create_session has been called, it has constructed a
\* TN3270Session exactly when the emulator is tn3270, a VT100Session exactly
\* when it is vt100 and IS_VT100_AVAILABLE, and otherwise has raised the
\* unsupported-emulator error with no session constructed; never two sessions.
SessionCalled == terminal # Absent /\ apc # "session"
C9_SessionDispatch ==
    /\ Count("TN3270Session") + Count("VT100Session") <= 1
    /\ SessionCalled =>
          /\ (In.args.emulator = "tn3270") <=>
                (session # Absent /\ session[1].class = "TN3270Session"
                    /\ Count("TN3270Session") = 1)
          /\ (In.args.emulator = "vt100" /\ IS_VT100_AVAILABLE) <=>
                (session # Absent /\ session[1].class = "VT100Session"
                    /\ Count("VT100Session") = 1)
          /\ (In.args.emulator # "tn3270"
                /\ ~(In.args.emulator = "vt100" /\ IS_VT100_AVAILABLE)) =>
                /\ session = Absent /\ aerr = "ValueError" /\ apc = "raised"
                /\ Count("TN3270Session") + Count("VT100Session") = 0
C9_Witness ==
    /\ SessionCalled /\ In.args.emulator = "vt100" /\ ~IS_VT100_AVAILABLE
    /\ aerr = "ValueError" /\ session = Absent

\* C13: _get_keymap gives a keymap for every description: the 3278 typewriter
\* keymap for the prefix 3278, the IBM typewriter keymap for the prefix
\* IBM-TYPEWRITER, the IBM enhanced keymap for the prefix IBM-ENHANCED, and the
\* 3278 typewriter keymap for everything else (the empty string, a prefix cut
\* short, another case, a leading blank).
KeymapSelected == alocal # Absent /\ "keymap" \in DOMAIN Local
C13_KeymapSelection ==
    KeymapSelected =>
        LET d == Local.keyboard_description
            k == Local.keymap
            is3278 == Len(d) >= 4 /\ \A i \in 1..4 : d[i] = Prefix3278[i]
            isTypewriter == Len(d) >= 14 /\ \A i \in 1..14 : d[i] = PrefixIbmTypewriter[i]
            isEnhanced == Len(d) >= 12 /\ \A i \in 1..12 : d[i] = PrefixIbmEnhanced[i]
        IN  /\ k \in {"KEYMAP_3278_TYPEWRITER", "KEYMAP_IBM_TYPEWRITER", "KEYMAP_IBM_ENHANCED"}
            /\ is3278 => k = "KEYMAP_3278_TYPEWRITER"
            /\ (~is3278 /\ isTypewriter) => k = "KEYMAP_IBM_TYPEWRITER"
            /\ (~is3278 /\ ~isTypewriter /\ isEnhanced) => k = "KEYMAP_IBM_ENHANCED"
            /\ (~is3278 /\ ~isTypewriter /\ ~isEnhanced) => k = "KEYMAP_3278_TYPEWRITER"
C13_Witness ==
    /\ KeymapSelected
    /\ Local.keyboard_description = <<"i", "b", "m", "-", "e", "n", "h", "a", "n", "c", "e", "d">>
    /\ Local.keymap = "KEYMAP_3278_TYPEWRITER"

\* C16: one attach issues get_ids, the CUT check, get_keyboard_description,
\* get_features, _get_keymap and Terminal in this order, each at most once; a
\* failed query ends the attach with nothing issued after it and no Terminal.
DeviceSteps == <<"get_ids", "get_keyboard_description", "get_features", "_get_keymap", "Terminal">>
DeviceLog == SubSeq(alog, 1, IF Len(alog) < Len(DeviceSteps) THEN Len(alog) ELSE Len(DeviceSteps))
C16_OneShotInOrder ==
    /\ DeviceLog = SubSeq(DeviceSteps, 1, Len(DeviceLog))
    /\ \A i \in 1..Len(DeviceSteps) : Count(DeviceSteps[i]) <= 1
    /\ Issued("get_keyboard_description") => (alocal # Absent /\ Local.terminal_id.type = "CUT")
    /\ (In.fails = "get_ids" /\ Issued("get_ids")) =>
          alog = <<"get_ids">> /\ apc = "raised" /\ aerr = "QueryError" /\ terminal = Absent
    /\ (In.fails = "get_features" /\ Issued("get_features")) =>
          /\ alog = <<"get_ids", "get_keyboard_description", "get_features">>
          /\ apc = "raised" /\ aerr = "QueryError" /\ terminal = Absent
C16_Witness ==
    /\ In.fails = "get_features" /\ apc = "raised" /\ aerr = "QueryError"
    /\ alog = <<"get_ids", "get_keyboard_description", "get_features">>

\* C14: for a name that resolves to a codec (ibm037, IBM037)
\* _get_character_encoding returns the name unchanged, so validating the
\* result again gives the same result, and parse_args stores that name; for a
\* name that does not resolve (not-a-real-encoding) it raises the
\* configuration error naming the input and the program ends.
C14_EncodingUnchanged ==
    LET r == _get_character_encoding(args.codepage)
    IN  /\ args.codepage \in {"ibm037", "IBM037"} =>
              /\ r.ok /\ r.value = args.codepage
              /\ _get_character_encoding(r.value) = r
              /\ pc # "parse" => args.character_encoding = args.codepage
        /\ args.codepage = "not-a-real-encoding" =>
              /\ ~r.ok /\ r.named = args.codepage
              /\ pc # "parse" => (pc = "exited" /\ exitStatus = "config")
C14_Witness ==
    /\ pc = "open" /\ args.codepage = "IBM037" /\ args.character_encoding = "IBM037"

\* The Lifecycle Manager's state, read off the reference and the handler
\* invocations: absent (no reference), stopping (a handler has called stop and
\* not yet cleared the reference), running (otherwise).
LifecycleState ==
    IF CONTROLLER = None THEN "absent"
    ELSE IF \E i \in 1..Len(frames) : frames[i].hpc \in {"stop", "clear"} THEN "stopping"
    ELSE "running"
BootstrapFinished == pc = "exited" /\ runState \in {"returned", "raised"}

\* C15: every execution that started the controller's run loop and has
\* finished (run returned or raised, for whatever reason) has ended with the
\* reference cleared, and the lifecycle only ever moves absent -> running ->
\* stopping -> absent.
C15_EndsAbsent ==
    /\ [](BootstrapFinished => LifecycleState = "absent")
    /\ [][\/ LifecycleState' = LifecycleState
          \/ LifecycleState = "absent" /\ LifecycleState' = "running"
          \/ LifecycleState = "running" /\ LifecycleState' = "stopping"
          \/ LifecycleState = "stopping" /\ LifecycleState' = "absent"]_vars

\* While the run loop executes and no handler has cleared the reference, the
\* reference is held.
HeldWhileRunning == (runState = "executing" /\ ~everCleared) => CONTROLLER = "ctrl"
\* The handler invocations that end in this step (one returning, or all of
\* them unwound by a fault) among those entered while the run loop was
\* executing and the reference was held.  main() does not move while an
\* invocation is on the stack, so runState is what it was at their delivery.
EndingInRun(i) ==
    /\ i \in (Len(frames') + 1)..Len(frames)
    /\ runState = "executing" /\ frames[i].before = "ctrl"

\* C17 as stated: the reference is held while the run loop executes and no
\* request has been handled, and every termination request delivered then
\* invokes stop on the controller.
C17_EveryRequestStops ==
    /\ []HeldWhileRunning
    /\ [][\A i \in 1..Len(frames) : EndingInRun(i) => frames[i].stops >= 1]_vars

\* C17 as amended: the reference is held while the run loop executes and no
\* request has been handled, and when the handler of a request delivered then
\* ends, stop has been invoked on the controller, by that handler or by one
\* that ran inside it.
C17_RequestSeesStop ==
    /\ []HeldWhileRunning
    /\ [][\A i \in 1..Len(frames) : EndingInRun(i) => stopCalls >= 1]_vars
C17_Witness ==
    /\ runState = "executing" /\ CONTROLLER = None /\ stopCalls = 1
    /\ Len(frames) = 1 /\ frames[1].before = "ctrl" /\ frames[1].hpc = "check"
    /\ frames[1].stops = 0

====
